---- MODULE Spec2Model ----
(***************************************************************************)
(* FTS Config Viewer: the window's two file paths, the four button         *)
(* handlers (load_logger_xml, load_end_visit_report, generate_pdf, reset)  *)
(* and the report-field extraction / document-merge pipeline run by        *)
(* generate_pdf, together with the files it leaves in C:\temp\FTSViewer\.  *)
(*                                                                         *)
(* Text is a sequence of tokens.  File names and line terminators are      *)
(* sequences of single characters; report text is cut into the pieces that *)
(* none of the searched strings splits (a word, a blank, ":", "#").        *)
(***************************************************************************)
EXTENDS Integers, Sequences, FiniteSets, TLC

VARIABLES logger_xml_path, logger_evr_path, end_visit_report_path,
          disk, dirExists, outFiles, run, reportSinceReset

vars == <<logger_xml_path, logger_evr_path, end_visit_report_path,
          disk, dirExists, outFiles, run, reportSinceReset>>

----------------------------------------------------------------------------
(* Bounds of the input families. *)
MaxCfgLen == 5
MaxLines == 2
MaxSegs == 2

----------------------------------------------------------------------------
(* Generic sequence helpers. *)

SeqsUpTo(S, n) == UNION {[1..k -> S] : k \in 0..n}

RECURSIVE Flatten(_)
Flatten(ss) == IF ss = <<>> THEN <<>> ELSE Head(ss) \o Flatten(Tail(ss))

\* s[0:stop] of Python, for any integer stop (a negative stop counts from the end)
PySliceTo(s, stop) ==
    LET n == Len(s)
        e == IF stop < 0 THEN (IF stop + n < 0 THEN 0 ELSE stop + n)
             ELSE (IF stop > n THEN n ELSE stop)
    IN SubSeq(s, 1, e)

\* is w a contiguous part of s starting at position i
MatchAt(s, w, i) == i + Len(w) - 1 <= Len(s) /\ SubSeq(s, i, i + Len(w) - 1) = w

\* Python's `w in s` and s.find(w) != -1
Contains(s, w) == \E i \in 1..(Len(s) + 1) : MatchAt(s, w, i)

\* Python's s.replace(w, r), left to right, non-overlapping (w non-empty)
RECURSIVE Replace(_, _, _)
Replace(s, w, r) ==
    IF s = <<>> THEN <<>>
    ELSE IF MatchAt(s, w, 1) THEN r \o Replace(SubSeq(s, Len(w) + 1, Len(s)), w, r)
    ELSE <<Head(s)>> \o Replace(Tail(s), w, r)

----------------------------------------------------------------------------
(* Text-mode file I/O of Python on Windows: open(path, "r") / open(path, "w") *)

CR == "\r"
LF == "\n"

\* reading in text mode: "\r\n", a lone "\r" and "\n" all arrive as "\n"
RECURSIVE ReadText(_)
ReadText(bytes) ==
    IF bytes = <<>> THEN <<>>
    ELSE IF Head(bytes) = CR
         THEN IF Len(bytes) >= 2 /\ bytes[2] = LF
              THEN <<LF>> \o ReadText(SubSeq(bytes, 3, Len(bytes)))
              ELSE <<LF>> \o ReadText(Tail(bytes))
    ELSE <<Head(bytes)>> \o ReadText(Tail(bytes))

\* writing in text mode: every "\n" leaves as os.linesep, "\r\n"
RECURSIVE WriteText(_)
WriteText(text) ==
    IF text = <<>> THEN <<>>
    ELSE IF Head(text) = LF THEN <<CR, LF>> \o WriteText(Tail(text))
    ELSE <<Head(text)>> \o WriteText(Tail(text))

\* position of the first "\n" of text, 0 when there is none
FirstLF(text) ==
    IF \E i \in 1..Len(text) : text[i] = LF
    THEN CHOOSE i \in 1..Len(text) : text[i] = LF /\ \A j \in 1..(i - 1) : text[j] # LF
    ELSE 0

\* what is left of the stream after one readline()
AfterReadline(text) ==
    IF FirstLF(text) = 0 THEN <<>> ELSE SubSeq(text, FirstLF(text) + 1, Len(text))

\* f.readlines(): the lines of the text, each keeping its "\n"
RECURSIVE Readlines(_)
Readlines(text) ==
    IF text = <<>> THEN <<>>
    ELSE IF FirstLF(text) = 0 THEN <<text>>
    ELSE <<SubSeq(text, 1, FirstLF(text))>> \o Readlines(AfterReadline(text))

----------------------------------------------------------------------------
(* File names *)

\* 'C:\\temp\\FTSViewer\\'
WorkDir == <<"C", ":", "\\", "t", "e", "m", "p", "\\",
             "F", "T", "S", "V", "i", "e", "w", "e", "r", "\\">>

XmlSuffix == <<"_FTSConfigViewer.xml">>
PdfSuffix == <<"_FTSConfigViewer.pdf">>

\* "C:/temp/FTSViewer/Sample_Config.html"
HtmlPath == <<"C:/temp/FTSViewer/Sample_Config.html">>

IsSep(c) == c = "/" \/ c = "\\"

\* os.path.basename: what follows the last separator
Basename(p) ==
    LET seps == {i \in 1..Len(p) : IsSep(p[i])}
        last == IF seps = {} THEN 0 ELSE CHOOSE i \in seps : \A j \in seps : j <= i
    IN SubSeq(p, last + 1, Len(p))

\* newfilename: the last four characters cut, whatever they are
NewFileName(p) ==
    LET n0 == WorkDir \o Basename(p)
    IN PySliceTo(n0, Len(n0) - 4) \o XmlSuffix

\* 'C:\\temp\\FTSViewer\\' + pdf_path
PdfFileName(p) ==
    WorkDir \o PySliceTo(Basename(p), Len(Basename(p)) - 4) \o PdfSuffix

----------------------------------------------------------------------------
(* Step 1 of generate_pdf: the fields of the End Visit Report *)

searchitems ==
    << <<"Logger", " ", "Model", ":">>,
       <<"Logger", " ", "Version", ":">>,
       <<"Serial", " ", "Number", ":">>,
       <<"OS", " ", "Version", ":">>,
       <<"Software", " ", "Version", ":">>,
       <<"Serial", "#", ":">>,
       <<"SW", " ", "Ver", ":">>,
       <<"Device", " ", "Type", ":">>,
       <<"Standard", ":">>,
       <<"Antenna", " ", "Bearing", ":">>,
       <<"Antenna", " ", "Inclination", ":">> >>

IsSpace(c) == c \in {" ", LF, CR, "\t"}

\* str.strip()
RECURSIVE LStrip(_)
LStrip(s) == IF s # <<>> /\ IsSpace(Head(s)) THEN LStrip(Tail(s)) ELSE s

RECURSIVE RStrip(_)
RStrip(s) ==
    IF s # <<>> /\ IsSpace(s[Len(s)]) THEN RStrip(SubSeq(s, 1, Len(s) - 1)) ELSE s

Strip(s) == RStrip(LStrip(s))

\* position of the first ":" of the line (every searched string ends in one)
FirstColon(line) ==
    CHOOSE i \in 1..Len(line) : line[i] = ":" /\ \A j \in 1..(i - 1) : line[j] # ":"

\* line.split(":", 1)
current_output(line) ==
    << SubSeq(line, 1, FirstColon(line) - 1),
       SubSeq(line, FirstColon(line) + 1, Len(line)) >>

\* leftout after the Serial# replacement
leftout(line) == Replace(current_output(line)[1], <<"Serial", "#">>, <<"Serial">>)

IsDeviceType(left) == Contains(left, <<"Device", " ", "Type">>)

\* the body of `if word in line:`; st is [count, evr_output]
FoundWord(line, st) ==
    LET left  == leftout(line)
        cnt   == IF IsDeviceType(left) THEN st.count + 1 ELSE st.count
        left2 == IF IsDeviceType(left) /\ cnt = 2 THEN left \o <<"2">> ELSE left
    IN [count |-> cnt,
        evr_output |-> Append(st.evr_output,
                              [label |-> Replace(left2, <<" ">>, <<>>),
                               value |-> Strip(current_output(line)[2])])]

\* for word in searchitems, from the k-th on
RECURSIVE ScanWords(_, _, _)
ScanWords(line, k, st) ==
    IF k > Len(searchitems) THEN st
    ELSE ScanWords(line, k + 1,
                   IF Contains(line, searchitems[k]) THEN FoundWord(line, st) ELSE st)

\* for i, line in enumerate(searchlines)
RECURSIVE ScanLines(_, _)
ScanLines(searchlines, st) ==
    IF searchlines = <<>> THEN st
    ELSE ScanLines(Tail(searchlines), ScanWords(Head(searchlines), 1, st))

\* evr_output for the text of a report
Extract(text) == ScanLines(Readlines(text), [count |-> 0, evr_output |-> <<>>]).evr_output

\* leftout.replace(" ","") + "=" + rightout
Attribute(f) == f.label \o <<"=", "\"">> \o f.value \o <<"\"", " ">>

Attributes(fields) == Flatten([i \in 1..Len(fields) |-> Attribute(fields[i])])

----------------------------------------------------------------------------
(* The window's attributes and the files around it *)

\* the attribute was never assigned: getattr(self, name, None) gives None
Absent == <<"<no attribute>">>

\* the value passes `if value:` (neither None nor "")
Truthy(v) == v # Absent /\ v # <<>>

\* the guard as a test that the attribute exists
ConfigMissing_AbsentOnly(xml) == xml = Absent

\* `if not getattr(self, 'logger_xml_path', None)`
ConfigMissing(xml) == ~Truthy(xml)

\* open() or the read raises: no such file, no permission, undecodable bytes
Unreadable == <<"<unreadable>">>

ReadFile(dsk, p) == IF p \in DOMAIN dsk THEN dsk[p] ELSE Unreadable

\* os.path.isfile
IsFile(dsk, p) == p \in DOMAIN dsk /\ dsk[p] # Unreadable

Decl == <<"<?xml version=\"1.0\" encoding=\"utf-8\"?><XMLRoot>">>
VisitOpen == <<"<VisitReport ">>
VisitClose == <<"></VisitReport>">>

\* what the environment does to one run: nothing, or the first of its steps
\* that fails (the renderer can fail before or after it has written the PDF)
Env == {"ok", "makedirs", "open_newfile", "transform", "render", "render_written"}

\* the record of a handler call; the fields a call never reached stay empty
NoRun(op, outcome) ==
    [op |-> op, outcome |-> outcome, stage |-> "",
     evr_path |-> <<>>, evr_output |-> <<>>, cfg |-> <<>>,
     newfilename |-> <<>>, merged |-> <<>>, wrote |-> FALSE,
     transform |-> "", render |-> "", opened |-> <<>>]

\* an exception that leaves generate_pdf
Raised(r, stage) == [r EXCEPT !.outcome = "unhandled", !.stage = stage]

\* xml_content with one readline() call only
xml_content_OneLine(bytes) == AfterReadline(ReadText(bytes))

\* xml_content: two readline() calls, then read()
xml_content(bytes) == AfterReadline(AfterReadline(ReadText(bytes)))

\* the merge with the VisitReport element written only for a non-empty field list
MergedText_IfFields(dsk, evr_path, evr_output, content) ==
    Decl
    \o (IF evr_output # <<>>
        THEN VisitOpen \o Attributes(evr_output) \o VisitClose
        ELSE <<>>)
    \o content

\* Steps 2b to 4: what is written to newfile
MergedText(dsk, evr_path, evr_output, content) ==
    Decl
    \o (IF IsFile(dsk, evr_path)
        THEN VisitOpen \o Attributes(evr_output) \o VisitClose
        ELSE <<>>)
    \o content

\* xml_to_pdf: the files it leaves; it raises nothing
xml_to_pdf(files, pdf, env) ==
    IF env = "transform" THEN files
    ELSE LET f1 == (HtmlPath :> <<"html">>) @@ files
         IN IF env = "render" THEN f1 ELSE (pdf :> <<"pdf">>) @@ f1

\* Step 5, inside try/except
Step5(xml, dir, files, r, env) ==
    LET pdf == PdfFileName(xml)
        f2  == xml_to_pdf(files, pdf, env)
        r2  == [r EXCEPT !.transform = IF env = "transform" THEN "fail" ELSE "ok",
                         !.render = IF env = "transform" THEN ""
                                    ELSE IF env \in {"render", "render_written"}
                                    THEN "fail" ELSE "ok"]
    IN [dirExists |-> dir, outFiles |-> f2,
        run |-> IF pdf \in DOMAIN f2
                THEN [r2 EXCEPT !.outcome = "opened", !.opened = pdf]
                ELSE [r2 EXCEPT !.outcome = "error_printed", !.stage = "startfile"]]

\* generate_pdf from the guard to Step 4
Generate(xml, evr, dsk, dir, files, env) ==
    LET r0 == NoRun("generate", "")
    IN
    IF ConfigMissing(xml)
    THEN [dirExists |-> dir, outFiles |-> files, run |-> NoRun("generate", "rejected")]
    ELSE IF ~dir /\ env = "makedirs"
    THEN [dirExists |-> dir, outFiles |-> files, run |-> Raised(r0, "makedirs")]
    ELSE
    LET evr_path == IF ~Truthy(evr) THEN <<>> ELSE evr
        r1 == [r0 EXCEPT !.evr_path = evr_path]
    IN
    IF evr_path # <<>> /\ ReadFile(dsk, evr_path) = Unreadable
    THEN [dirExists |-> TRUE, outFiles |-> files, run |-> Raised(r1, "open_evr")]
    ELSE
    LET evr_output == IF evr_path # <<>> THEN Extract(ReadText(ReadFile(dsk, evr_path)))
                      ELSE <<>>
        r2 == [r1 EXCEPT !.evr_output = evr_output]
    IN
    IF ReadFile(dsk, xml) = Unreadable
    THEN [dirExists |-> TRUE, outFiles |-> files, run |-> Raised(r2, "open_xml")]
    ELSE
    LET newfilename == NewFileName(xml)
        r3 == [r2 EXCEPT !.cfg = ReadFile(dsk, xml), !.newfilename = newfilename]
    IN
    IF env = "open_newfile"
    THEN [dirExists |-> TRUE, outFiles |-> files, run |-> Raised(r3, "open_newfile")]
    ELSE
    LET merged == WriteText(MergedText(dsk, evr_path, evr_output,
                                       xml_content(ReadFile(dsk, xml))))
        r4 == [r3 EXCEPT !.merged = merged, !.wrote = TRUE]
    IN Step5(xml, TRUE, (newfilename :> merged) @@ files, r4, env)

----------------------------------------------------------------------------
(* The files of the environment *)

CfgXml  == <<"C", ":", "/", "d", "/", "s", ".", "x", "m", "l">>
CfgConf == <<"C", ":", "/", "d", "/", "s", ".", "c", "o", "n", "f">>
CfgGone == <<"C", ":", "/", "d", "/", "g", ".", "x", "m", "l">>
ConfigPaths == {CfgXml, CfgConf, CfgGone}

RptFull  == <<"C", ":", "/", "d", "/", "r", ".", "t", "x", "t">>
RptPlain == <<"C", ":", "/", "d", "/", "e", ".", "t", "x", "t">>
RptGone  == <<"C", ":", "/", "d", "/", "g", ".", "t", "x", "t">>
ReportPaths == {RptFull, RptPlain, RptGone}

SampleDisk ==
    (CfgXml  :> <<"<?xml?>", CR, LF, "<?xml-stylesheet?>", CR, LF, "<Body/>", CR, LF>>)
 @@ (CfgConf :> <<"<?xml?>", LF, "<?xml-stylesheet?>", LF, "<Body/>", LF>>)
 @@ (CfgGone :> Unreadable)
 @@ (RptFull :> <<"Serial", "#", ":", " ", "ABC123", CR, LF,
                  "Device", " ", "Type", ":", " ", "Receiver", CR, LF,
                  "Device", " ", "Type", ":", " ", "Antenna", CR, LF>>)
 @@ (RptPlain :> <<"Site", " ", "visit", " ", "notes", CR, LF>>)
 @@ (RptGone :> Unreadable)

----------------------------------------------------------------------------
(* The button handlers *)

\* QFileDialog.getOpenFileName: a path, or "" when the dialog is cancelled
load_logger_xml ==
    \E file_path \in ConfigPaths \cup {<<>>} :
        /\ logger_xml_path' = IF file_path # <<>> THEN file_path ELSE logger_xml_path
        /\ run' = NoRun("load_logger_xml",
                        IF file_path # <<>> THEN "selected" ELSE "cancelled")
        /\ UNCHANGED <<logger_evr_path, end_visit_report_path, disk, dirExists,
                       outFiles, reportSinceReset>>

load_end_visit_report ==
    \E file_path \in ReportPaths \cup {<<>>} :
        LET blocked == ConfigMissing(logger_xml_path)
            chosen  == ~blocked /\ file_path # <<>>
        IN
        /\ logger_evr_path' = IF chosen THEN file_path ELSE logger_evr_path
        /\ reportSinceReset' = (reportSinceReset \/ chosen)
        /\ run' = NoRun("load_end_visit_report",
                        IF blocked THEN "rejected"
                        ELSE IF chosen THEN "selected" ELSE "cancelled")
        /\ UNCHANGED <<logger_xml_path, end_visit_report_path, disk, dirExists,
                       outFiles>>

generate_pdf ==
    \E env \in Env :
        LET g == Generate(logger_xml_path, logger_evr_path, disk, dirExists,
                          outFiles, env)
        IN
        /\ dirExists' = g.dirExists
        /\ outFiles' = g.outFiles
        /\ run' = g.run
        /\ UNCHANGED <<logger_xml_path, logger_evr_path, end_visit_report_path,
                       disk, reportSinceReset>>

\* the attribute reset assigns beside logger_xml_path
ResetPaths(xml, evr, evp) == [xml |-> <<>>, evr |-> evr, evp |-> <<>>]

reset ==
    LET p == ResetPaths(logger_xml_path, logger_evr_path, end_visit_report_path)
    IN
    /\ logger_xml_path' = p.xml
    /\ logger_evr_path' = p.evr
    /\ end_visit_report_path' = p.evp
    /\ reportSinceReset' = FALSE
    /\ run' = NoRun("reset", "done")
    /\ UNCHANGED <<disk, dirExists, outFiles>>

----------------------------------------------------------------------------
(* The window with the sample files *)

Init ==
    /\ logger_xml_path = Absent
    /\ logger_evr_path = Absent
    /\ end_visit_report_path = Absent
    /\ disk = SampleDisk
    /\ dirExists = FALSE
    /\ outFiles = <<>>
    /\ run = NoRun("init", "")
    /\ reportSinceReset = FALSE

Next == load_logger_xml \/ load_end_visit_report \/ generate_pdf \/ reset

Spec == Init /\ [][Next]_vars

----------------------------------------------------------------------------
(* The merge over every small configuration content: a configuration is   *)
(* loaded, no report is, and Generate PDF is pressed.                      *)

CfgFamily == SeqsUpTo({"a", "b", CR, LF}, MaxCfgLen)

InitMerge ==
    /\ logger_xml_path = CfgXml
    /\ logger_evr_path = Absent
    /\ end_visit_report_path = Absent
    /\ disk \in {(CfgXml :> c) : c \in CfgFamily}
    /\ dirExists = FALSE
    /\ outFiles = <<>>
    /\ run = NoRun("load_logger_xml", "selected")
    /\ reportSinceReset = FALSE

NextMerge == generate_pdf

SpecMerge == InitMerge /\ [][NextMerge]_vars

----------------------------------------------------------------------------
(* The extraction over every small report: a configuration and a report   *)
(* are loaded and Generate PDF is pressed.  A report is up to MaxLines     *)
(* lines, a line up to MaxSegs of the pieces below, ended by CR LF.        *)

DeviceTypeWord == <<"Device", " ", "Type", ":">>

Segs == { DeviceTypeWord \o <<" ", "x", " ">>,
          <<"Standard", ":", " ", "y">>,
          <<"Serial", "#", ":", " ", "z", " ">>,
          <<"n", ":">>,
          <<"w", " ">> }

LineFamily == {Flatten(ss) \o <<CR, LF>> : ss \in SeqsUpTo(Segs, MaxSegs)}

ReportFamily == {Flatten(ls) : ls \in SeqsUpTo(LineFamily, MaxLines)}

InitExtract ==
    /\ logger_xml_path = CfgXml
    /\ logger_evr_path = RptFull
    /\ end_visit_report_path = Absent
    /\ disk \in {(RptFull :> rep) @@ SampleDisk : rep \in ReportFamily}
    /\ dirExists = FALSE
    /\ outFiles = <<>>
    /\ run = NoRun("load_end_visit_report", "selected")
    /\ reportSinceReset = TRUE

NextExtract == generate_pdf

SpecExtract == InitExtract /\ [][NextExtract]_vars

----------------------------------------------------------------------------
(* What the claims speak of *)

\* the lines of a file as it lies on disk: a line ends at CR LF, at a lone LF
\* or at a lone CR; text is the line without its terminator, raw with it
RECURSIVE RawLinesFrom(_, _)
RawLinesFrom(bytes, cur) ==
    IF bytes = <<>>
    THEN IF cur = <<>> THEN <<>> ELSE <<[text |-> cur, raw |-> cur, term |-> FALSE]>>
    ELSE IF Head(bytes) = CR /\ Len(bytes) >= 2 /\ bytes[2] = LF
    THEN <<[text |-> cur, raw |-> cur \o <<CR, LF>>, term |-> TRUE]>>
         \o RawLinesFrom(SubSeq(bytes, 3, Len(bytes)), <<>>)
    ELSE IF Head(bytes) \in {CR, LF}
    THEN <<[text |-> cur, raw |-> Append(cur, Head(bytes)), term |-> TRUE]>>
         \o RawLinesFrom(Tail(bytes), <<>>)
    ELSE RawLinesFrom(Tail(bytes), Append(cur, Head(bytes)))

RawLines(bytes) == RawLinesFrom(bytes, <<>>)

\* the content minus its first two lines, byte for byte
BodyExact(bytes) ==
    LET ls == RawLines(bytes)
    IN Flatten([i \in 1..(IF Len(ls) > 2 THEN Len(ls) - 2 ELSE 0) |-> ls[i + 2].raw])

\* the content minus its first two lines, every terminator become CR LF
BodyCRLF(bytes) ==
    LET ls == RawLines(bytes)
    IN Flatten([i \in 1..(IF Len(ls) > 2 THEN Len(ls) - 2 ELSE 0) |->
                   ls[i + 2].text \o (IF ls[i + 2].term THEN <<CR, LF>> ELSE <<>>)])

\* every line terminator of the content is CR LF
OnlyCRLF(bytes) == \A i \in 1..Len(RawLines(bytes)) :
                       RawLines(bytes)[i].term => Len(RawLines(bytes)[i].raw) =
                                                  Len(RawLines(bytes)[i].text) + 2

HasVisitReport(doc) == \E i \in 1..Len(doc) : doc[i] \in {VisitOpen[1], VisitClose[1]}

\* the run read both inputs and went on to name the merged file
Merged == run.op = "generate" /\ run.wrote

\* the text of a line after the first occurrence of word in it
AfterWord(text, word) ==
    LET i == CHOOSE k \in 1..Len(text) :
                 MatchAt(text, word, k) /\ \A j \in 1..(k - 1) : ~MatchAt(text, word, j)
    IN SubSeq(text, i + Len(word), Len(text))

\* a known label without its colon, '#' and blanks
NormalLabel(word) == SelectSeq(word, LAMBDA c : c \notin {":", "#", " "})

\* os.path.splitext(base)[0]: the base name without its extension
Root(base) ==
    LET dots == {i \in 2..Len(base) : base[i] = "." /\ \E j \in 1..(i - 1) : base[j] # "."}
    IN IF dots = {} THEN base
       ELSE SubSeq(base, 1, (CHOOSE i \in dots : \A j \in dots : j <= i) - 1)

\* the report the run read, as lines
ReportLines == RawLines(disk[run.evr_path])

----------------------------------------------------------------------------
(* The claims *)

\* C1: after reset both the configuration path and the report path are unset,
\* and a generate run that follows with a newly loaded configuration and no
\* newly loaded report uses an empty field list and writes no VisitReport.
C1_ResetClearsBothPaths ==
    /\ run.op = "reset" => ~Truthy(logger_xml_path) /\ ~Truthy(logger_evr_path)
    /\ (Merged /\ ~reportSinceReset) =>
           run.evr_output = <<>> /\ ~HasVisitReport(run.merged)

\* C2: a set report path implies a set configuration path.
C2_ReportImpliesConfig == Truthy(logger_evr_path) => Truthy(logger_xml_path)

\* C3: a generate request made while no configuration path is set is rejected
\* and changes nothing: not the working directory, not the files in it, not
\* the two paths, and it opens no viewer.
C3_RejectedGenerateHasNoEffect ==
    [][(run'.op = "generate" /\ ~Truthy(logger_xml_path)) =>
           /\ run'.outcome = "rejected"
           /\ run'.opened = <<>>
           /\ ~run'.wrote
           /\ dirExists' = dirExists
           /\ outFiles' = outFiles
           /\ logger_xml_path' = logger_xml_path
           /\ logger_evr_path' = logger_evr_path]_vars

\* C3 witness: Generate PDF was rejected after a reset that followed a run
\* which had written its files, and those files are as they were.
C3_Witness ==
    /\ run.op = "generate" /\ run.outcome = "rejected"
    /\ logger_xml_path = <<>>
    /\ dirExists /\ NewFileName(CfgXml) \in DOMAIN outFiles

\* C4: when "Device Type:" is on exactly two lines of the report, the first
\* yields the one field labelled DeviceType, the second the one field labelled
\* DeviceType2, in that order, each with the value of its own line.
C4_DeviceTypeTwice ==
    (run.op = "generate" /\ run.newfilename # <<>> /\ run.evr_path # <<>>) =>
        LET ls  == ReportLines
            dts == {j \in 1..Len(ls) : Contains(ls[j].text, DeviceTypeWord)}
            f   == run.evr_output
            d1  == {k \in 1..Len(f) : f[k].label = <<"Device", "Type">>}
            d2  == {k \in 1..Len(f) : f[k].label = <<"Device", "Type", "2">>}
        IN Cardinality(dts) = 2 =>
               /\ Cardinality(d1) = 1 /\ Cardinality(d2) = 1
               /\ \A k1 \in d1, k2 \in d2 :
                      /\ k1 < k2
                      /\ \E j1 \in dts, j2 \in dts :
                             /\ j1 < j2
                             /\ f[k1].value = Strip(AfterWord(ls[j1].text, DeviceTypeWord))
                             /\ f[k2].value = Strip(AfterWord(ls[j2].text, DeviceTypeWord))

\* C5: when exactly one known label occurs in the report, exactly once, the
\* extraction yields exactly one field: the label normalized, and the trimmed
\* text that follows the label on its line.
C5_SingleLabel ==
    (run.op = "generate" /\ run.newfilename # <<>> /\ run.evr_path # <<>>) =>
        LET ls  == ReportLines
            occ == {o \in (1..Len(ls)) \X (1..Len(searchitems)) \X (1..8) :
                        MatchAt(ls[o[1]].text, searchitems[o[2]], o[3])}
        IN Cardinality(occ) = 1 =>
               \A o \in occ :
                   run.evr_output =
                       <<[label |-> NormalLabel(searchitems[o[2]]),
                          value |-> Strip(AfterWord(ls[o[1]].text, searchitems[o[2]]))]>>

\* C6 as stated: whenever the field list of a run is empty, the merged
\* document has no VisitReport element and is the wrapper followed by the body.
C6_EmptyFieldsNoVisitReport ==
    (Merged /\ run.evr_output = <<>>) =>
        /\ ~HasVisitReport(run.merged)
        /\ run.merged = Decl \o BodyCRLF(run.cfg)

\* C6 amended: with no report path held the merged document has no
\* VisitReport element; with a report held that yields no field it has the
\* empty element, between the wrapper and the body.
C6_VisitReportFollowsReportPath ==
    Merged =>
        /\ run.evr_path = <<>> => run.merged = Decl \o BodyCRLF(run.cfg)
        /\ (run.evr_path # <<>> /\ run.evr_output = <<>>) =>
               run.merged = Decl \o VisitOpen \o VisitClose \o BodyCRLF(run.cfg)

\* C6 witness: a run with a report loaded that holds no known label.
C6_Witness ==
    Merged /\ run.evr_path = RptPlain /\ run.evr_output = <<>> /\ Len(run.merged) > 3

\* C7 as stated: with no report, the merged document is the prefix followed
\* by exactly the original content without its first two lines.
C7_BodyByteForByte ==
    (Merged /\ run.evr_path = <<>>) => run.merged = Decl \o BodyExact(run.cfg)

\* C7 amended: with no report, the merged document is the prefix followed by
\* the original content without its first two lines, each line terminator
\* written as CR LF; a content whose terminators are all CR LF is kept exactly.
C7_BodyWithCRLF ==
    (Merged /\ run.evr_path = <<>>) =>
        /\ run.merged = Decl \o BodyCRLF(run.cfg)
        /\ OnlyCRLF(run.cfg) => run.merged = Decl \o BodyExact(run.cfg)

\* C7 witness: a content of more than two lines, not all ended by CR LF,
\* whose third line has text, was merged.
C7_Witness ==
    /\ Merged /\ run.evr_path = <<>>
    /\ Len(RawLines(run.cfg)) > 2 /\ ~OnlyCRLF(run.cfg)
    /\ RawLines(run.cfg)[3].text # <<>>

\* C8: a run whose transform or render step failed opens no PDF.
C8_NoPdfOpenedOnFailure ==
    (run.op = "generate" /\ (run.transform = "fail" \/ run.render = "fail")) =>
        run.opened = <<>>

\* C9: no failure leaves generate as an unhandled exception, and an unreadable
\* input file ends the run before the merged file is written.
C9_AllFailuresCaught ==
    run.op = "generate" =>
        /\ run.outcome # "unhandled"
        /\ run.stage \in {"open_evr", "open_xml"} => ~run.wrote

\* C10: the merged file and the PDF are named by the base name of the
\* configuration path without its extension, in the working directory.
C10_NamesDropExtension ==
    Merged =>
        /\ run.newfilename = WorkDir \o Root(Basename(logger_xml_path)) \o XmlSuffix
        /\ run.opened # <<>> =>
               run.opened = WorkDir \o Root(Basename(logger_xml_path)) \o PdfSuffix

====
